---- MODULE Spec2Model ----
(***************************************************************************)
(* A model of the tomodraw canvas (src/src/tomodraw/app.py): the character *)
(* grid of the Canvas widget, the gesture state kept on TomodrawApp, the   *)
(* pointer handlers and the rasterizers.                                   *)
(*                                                                         *)
(* Python lists are mutable objects, and the code shares them (a class     *)
(* attribute, an assignment without a copy), so grids live in a heap of    *)
(* objects and the attributes hold references to them.  A grid is a        *)
(* sequence of rows, a row a sequence of one-character strings; the cell   *)
(* grid[y][x] of the code is g[y + 1][x + 1] here.                         *)
(*                                                                         *)
(* The box-drawing characters are written by their code points, since a    *)
(* string of the module holds ASCII only.                                  *)
(***************************************************************************)
EXTENDS Integers, Sequences, FiniteSets, TLC

\* ---------------------------------------------------------------- constants

W == 80
H == 24

BLANK == " "
HLINE == "U+2500"
VLINE == "U+2502"
CORNER_TL == "U+250C"
CORNER_TR == "U+2510"
CORNER_BL == "U+2514"
CORNER_BR == "U+2518"

RECTANGLE == "RECTANGLE"
TEXT == "TEXT"
LINE == "LINE"
PENCIL == "PENCIL"
ERASER == "ERASER"
Tool == {RECTANGLE, TEXT, LINE, PENCIL, ERASER}

\* ------------------------------------------------------------------- bounds

\* Canvas instances that exist at once.
NumCanvas == 2
\* In-range pointer coordinates are 0..MaxX by 0..MaxY.
MaxX == 1
MaxY == 1
\* Events of one run.
MaxSteps == 4
MaxStepsText == 7
\* Length of a committed text, and text overlays pending at once.
MaxTextLen == 2
MaxOverlays == 1

InPoints == {<<x, y>> : x \in 0..MaxX, y \in 0..MaxY}
EdgePoints == {<<W - 1, 0>>, <<0, H - 1>>}
OutPoints == {<<-1, 0>>, <<0, -1>>, <<W, 0>>, <<0, H>>}
Points == InPoints \cup EdgePoints \cup OutPoints
BrushChars == {"x", "#"}
SampleText == <<"h", "i", "!", "?">>
Texts == {SubSeq(SampleText, 1, n) : n \in 0..MaxTextLen}

\* ------------------------------------------------------------ python lists

None == 0
NoError == "none"
IndexError == "IndexError"
AssertionError == "AssertionError"

\* list[i]: an index in [-len, len) is valid, a negative one counts from the end.
PyIndexOk(n, i) == -n <= i /\ i < n
PyIndex(n, i) == IF i < 0 THEN i + n ELSE i

Ok(g) == [err |-> NoError, grid |-> g]
Raise(e, g) == [err |-> e, grid |-> g]
Then(r, F(_)) == IF r.err = NoError THEN F(r.grid) ELSE r

\* grid[y][x] = char
SetItem(g, x, y, char) ==
    IF PyIndexOk(Len(g), y) /\ PyIndexOk(Len(g[PyIndex(Len(g), y) + 1]), x)
    THEN LET row == PyIndex(Len(g), y) + 1
             col == PyIndex(Len(g[row]), x) + 1
         IN  Ok([g EXCEPT ![row][col] = char])
    ELSE Raise(IndexError, g)

\* Mutant: [[" "] * 24 for _ in range(80)].
BlankGridTransposed == [y \in 1..W |-> [x \in 1..H |-> BLANK]]

\* [[" "] * 80 for _ in range(24)]
BlankGrid == [y \in 1..H |-> [x \in 1..W |-> BLANK]]

NEWLINE == "\n"

\* "\n".join("".join(row) for row in self.grid): the text as the sequence of
\* its characters.
RECURSIVE JoinRows(_, _)
JoinRows(g, i) ==
    IF i > Len(g) THEN <<>>
    ELSE (IF i > 1 THEN <<NEWLINE>> ELSE <<>>) \o g[i] \o JoinRows(g, i + 1)

grid_as_text(g) == JoinRows(g, 1)

\* ------------------------------------------------------------- rasterizers

\* Mutant: the indices exchanged, self.grid[x][y] = char.
draw_cell_transposed(g, x, y, char) == SetItem(g, y, x, char)

draw_cell(g, x, y, char) == SetItem(g, x, y, char)

\* Mutant: the eraser leaves the cell as it is.
erase_cell_skipped(g, x, y) == Ok(g)

erase_cell(g, x, y) == draw_cell(g, x, y, BLANK)

RECURSIVE HorizontalFrom(_, _, _, _)
HorizontalFrom(g, y, x, end_x) ==
    IF x > end_x THEN Ok(g)
    ELSE LET r == SetItem(g, x, y, HLINE)
         IN  IF r.err = NoError THEN HorizontalFrom(r.grid, y, x + 1, end_x) ELSE r

draw_horizontal_line(g, y, start_x, end_x) ==
    IF ~(start_x < end_x) THEN Raise(AssertionError, g)
    ELSE HorizontalFrom(g, y, start_x, end_x)

RECURSIVE VerticalFrom(_, _, _, _)
VerticalFrom(g, x, y, end_y) ==
    IF y > end_y THEN Ok(g)
    ELSE LET r == SetItem(g, x, y, VLINE)
         IN  IF r.err = NoError THEN VerticalFrom(r.grid, x, y + 1, end_y) ELSE r

draw_vertical_line(g, x, start_y, end_y) ==
    IF ~(start_y < end_y) THEN Raise(AssertionError, g)
    ELSE VerticalFrom(g, x, start_y, end_y)

\* Mutant: the segments drawn without the guard.
HasExtentAlways(start, end) == TRUE

\* if start_x != end_x, if start_y != end_y: the guard of the segment calls.
HasExtent(start, end) == start # end

Min(a, b) == IF a < b THEN a ELSE b
Max(a, b) == IF a > b THEN a ELSE b

\* Mutant: the glyphs of the bottom-left and top-right corners exchanged.
RectangleCornersExchanged(g, start_x, start_y, end_x, end_y) ==
    Then(Then(Then(SetItem(g, start_x, start_y, CORNER_TL),
                   LAMBDA n : SetItem(n, start_x, end_y, CORNER_TR)),
              LAMBDA n : SetItem(n, end_x, start_y, CORNER_BL)),
         LAMBDA n : SetItem(n, end_x, end_y, CORNER_BR))

RectangleCorners(g, start_x, start_y, end_x, end_y) ==
    Then(Then(Then(SetItem(g, start_x, start_y, CORNER_TL),
                   LAMBDA n : SetItem(n, start_x, end_y, CORNER_BL)),
              LAMBDA n : SetItem(n, end_x, start_y, CORNER_TR)),
         LAMBDA n : SetItem(n, end_x, end_y, CORNER_BR))

\* The grid draw_rectangle installs, drawn on new_grid, a copy of the base.
draw_rectangle(new_grid, x0, y0, x1, y1) ==
    LET start_x == Min(x0, x1)
        end_x == Max(x0, x1)
        start_y == Min(y0, y1)
        end_y == Max(y0, y1)
        r1 == IF HasExtent(start_x, end_x)
              THEN Then(draw_horizontal_line(new_grid, start_y, start_x, end_x),
                        LAMBDA n : draw_horizontal_line(n, end_y, start_x, end_x))
              ELSE Ok(new_grid)
        r2 == IF HasExtent(start_y, end_y)
              THEN Then(Then(r1, LAMBDA n : draw_vertical_line(n, start_x, start_y, end_y)),
                        LAMBDA n : draw_vertical_line(n, end_x, start_y, end_y))
              ELSE r1
    IN  IF start_x # end_x /\ start_y # end_y
        THEN Then(r2, LAMBDA n : RectangleCorners(n, start_x, start_y, end_x, end_y))
        ELSE r2

\* Mutant: the corner table indexed [y0 < y1][x0 < x1].
LineCornerHorizontalFirstTransposed(x0, y0, x1, y1) ==
    IF y0 < y1 THEN (IF x0 < x1 THEN CORNER_TR ELSE CORNER_BR)
    ELSE (IF x0 < x1 THEN CORNER_TL ELSE CORNER_BL)

\* (("└", "┌"), ("┘", "┐"))[x0 < x1][y0 < y1]
LineCornerHorizontalFirst(x0, y0, x1, y1) ==
    IF x0 < x1 THEN (IF y0 < y1 THEN CORNER_TR ELSE CORNER_BR)
    ELSE (IF y0 < y1 THEN CORNER_TL ELSE CORNER_BL)

\* (("┐", "┘"), ("┌", "└"))[x0 < x1][y0 < y1]
LineCornerVerticalFirst(x0, y0, x1, y1) ==
    IF x0 < x1 THEN (IF y0 < y1 THEN CORNER_BL ELSE CORNER_TL)
    ELSE (IF y0 < y1 THEN CORNER_BR ELSE CORNER_TR)

\* Mutant: the row of the horizontal segment taken the other way round.
LineRowExchanged(y0, y1, horizontal_first) == IF horizontal_first THEN y1 ELSE y0

\* y = y0 if horizontal_first else y1
LineRow(y0, y1, horizontal_first) == IF horizontal_first THEN y0 ELSE y1

\* x = x1 if horizontal_first else x0
LineColumn(x0, x1, horizontal_first) == IF horizontal_first THEN x1 ELSE x0

draw_line(new_grid, x0, y0, x1, y1, horizontal_first) ==
    LET start_x == Min(x0, x1)
        end_x == Max(x0, x1)
        start_y == Min(y0, y1)
        end_y == Max(y0, y1)
        r1 == IF HasExtent(start_x, end_x)
              THEN draw_horizontal_line(new_grid, LineRow(y0, y1, horizontal_first),
                                        start_x, end_x)
              ELSE Ok(new_grid)
        r2 == IF HasExtent(start_y, end_y)
              THEN Then(r1, LAMBDA n : draw_vertical_line(
                                n, LineColumn(x0, x1, horizontal_first), start_y, end_y))
              ELSE r1
    IN  IF start_x # end_x /\ start_y # end_y
        THEN IF horizontal_first
             THEN Then(r2, LAMBDA n : SetItem(n, x1, y0,
                                              LineCornerHorizontalFirst(x0, y0, x1, y1)))
             ELSE Then(r2, LAMBDA n : SetItem(n, x0, y1,
                                              LineCornerVerticalFirst(x0, y0, x1, y1)))
        ELSE r2

\* for x, char in enumerate(text, start=start_x): self.grid[start_y][x] = char
RECURSIVE TextFrom(_, _, _, _, _)
TextFrom(g, text, i, start_x, start_y) ==
    IF i > Len(text) THEN Ok(g)
    ELSE LET r == SetItem(g, start_x + i - 1, start_y, text[i])
         IN  IF r.err = NoError THEN TextFrom(r.grid, text, i + 1, start_x, start_y)
             ELSE r

\* Mutant: enumerate(text) without start=start_x.
draw_text_unanchored(g, text, start_x, start_y) == TextFrom(g, text, 1, 0, start_y)

draw_text(g, text, start_x, start_y) == TextFrom(g, text, 1, start_x, start_y)

\* -------------------------------------------------------------------- state

\* Objects: the list bound to the class attribute Canvas.grid, and the lists
\* that copy.deepcopy creates.  The list bound to the class attribute
\* TomodrawApp.last_canvas_grid is written by nothing and stays blank.
CanvasClassGrid == 1
Ids == 1..(NumCanvas + 3)
Free == <<>>

VARIABLES
    canvases,       \* the Canvas instances of the app
    limit,          \* the number of events of the run
    heap,           \* object id -> grid, Free for an id that holds no object
    canvas_grid,    \* per canvas: the instance attribute grid, None while unset
    app_last,       \* the app's instance attribute last_canvas_grid, None while unset
    draw,           \* TomodrawApp.draw
    tool_start_x,   \* TomodrawApp.tool_start_x
    tool_start_y,   \* TomodrawApp.tool_start_y
    tool,           \* Toolbox.selected_tool
    brush_char,     \* PencilTool.brush_char
    overlays,       \* the mounted TextInputOverlay widgets, in mount order
    err,            \* the exception that ended the app, NoError while it runs
    ev,             \* history: the last event delivered
    gesture,        \* history: the last press and what followed it
    steps           \* history: events delivered

vars == <<canvases, limit, heap, canvas_grid, app_last, draw, tool_start_x, tool_start_y,
          tool, brush_char, overlays, err, ev, gesture, steps>>

\* self.grid: the instance attribute, else the class attribute.
GridRef(c) == IF canvas_grid[c] = None THEN CanvasClassGrid ELSE canvas_grid[c]
Grid(c) == heap[GridRef(c)]

\* self.app.last_canvas_grid: the instance attribute, else the class attribute.
LastGrid == IF app_last = None THEN BlankGrid ELSE heap[app_last]

\* Reference counting: an object no attribute refers to is gone.
Live(cg, al) ==
    {CanvasClassGrid} \cup ({cg[c] : c \in DOMAIN cg} \ {None}) \cup ({al} \ {None})
Collect(hp, cg, al) == [i \in Ids |-> IF i \in Live(cg, al) THEN hp[i] ELSE Free]
NewId == CHOOSE i \in Ids \ Live(canvas_grid, app_last) :
            \A j \in Ids \ Live(canvas_grid, app_last) : i <= j

\* History records.  A field that the event did not use holds a fixed value.
Event(kind, active, x, y, text) ==
    [kind |-> kind, active |-> active, x |-> x, y |-> y, text |-> text]
NoEvent == Event("none", FALSE, 0, 0, <<>>)
\* gesture: the canvas, tool, brush and (for the Line tool) modifier of the
\* last press, the grid of that canvas right before the press, the points of
\* the press and of the moves delivered while drawing, the last such move and
\* (for the Line tool) its modifier; switched: a tool was selected since the
\* press; pure: no brush update, text commit or event on another canvas since.
NoGesture == [canvas |-> None, tool |-> RECTANGLE, brush |-> BLANK, ctrl |-> FALSE,
              base |-> Free, pure |-> FALSE, switched |-> FALSE, moves |-> 0,
              pts |-> {}, x |-> 0, y |-> 0, hf |-> FALSE, rep |-> FALSE]

InitApp ==
    /\ heap = [i \in Ids |-> IF i = CanvasClassGrid THEN BlankGrid ELSE Free]
    /\ canvas_grid = [c \in canvases |-> None]
    /\ app_last = None
    /\ draw = FALSE
    /\ tool_start_x = 0
    /\ tool_start_y = 0
    /\ tool = RECTANGLE
    /\ brush_char = "x"
    /\ overlays = <<>>
    /\ err = NoError
    /\ ev = NoEvent
    /\ gesture = NoGesture
    /\ steps = 0

\* TomodrawApp.compose yields one Canvas.
Init == canvases = {1} /\ limit = MaxSteps /\ InitApp

Running == err = NoError

\* ----------------------------------------------------------------- handlers

\* TextInputOverlay(max_length=80 - event.x, start_x=event.x, start_y=event.y)
TextInputOverlay(start_x, start_y, max_length) ==
    [start_x |-> start_x, start_y |-> start_y, max_length |-> max_length]

\* An in-place write to self.grid: the object changes, and with it what every
\* attribute that refers to it shows.
WriteGrid(c, r) ==
    /\ heap' = [heap EXCEPT ![GridRef(c)] = r.grid]
    /\ err' = r.err
    /\ UNCHANGED canvas_grid

\* self.grid = new_grid, where new_grid is a fresh copy that was drawn on; the
\* assignment is not reached when the drawing raised.
InstallGrid(c, r) ==
    IF r.err = NoError
    THEN /\ canvas_grid' = [canvas_grid EXCEPT ![c] = NewId]
         /\ heap' = Collect([heap EXCEPT ![NewId] = r.grid], canvas_grid', app_last)
         /\ err' = NoError
    ELSE /\ err' = r.err
         /\ UNCHANGED <<heap, canvas_grid>>

\* Mutant: on_leave leaving the gesture active.
on_leave_ignored(c) ==
    /\ Running
    /\ steps < limit
    /\ ev' = Event("leave", draw, 0, 0, <<>>)
    /\ steps' = steps + 1
    /\ UNCHANGED <<canvases, limit, heap, canvas_grid, app_last, draw, tool_start_x,
                   tool_start_y, tool, brush_char, overlays, err, gesture>>

\* Mutant: on_mouse_move without its early return.
GestureAlwaysActive == TRUE

\* if not self.app.draw: return
GestureActive == draw

\* The tool Canvas.on_mouse_move dispatches on: self.app.tool, read at the move.
MoveTool == tool

\* Mutant: the modifier of the move ignored, every line drawn vertical first.
HorizontalFirstIgnored(ctrl) == FALSE

\* horizontal_first=event.ctrl, the flag of the move event.
HorizontalFirst(ctrl) == ctrl

\* Mutant: the brush character kept from the press for the whole gesture.
pencil_brush_char_of_press == IF draw THEN gesture.brush ELSE brush_char

\* TomodrawApp.pencil_brush_char: query_one(PencilTool).brush_char, read at
\* each paint.
pencil_brush_char == brush_char

\* Mutant: the shape drawn from the column of the previous move.
MoveAnchorXAtPreviousMove == IF gesture.moves >= 1 THEN gesture.x ELSE tool_start_x

\* self.app.tool_start_x, self.app.tool_start_y: the anchor a move draws from.
MoveAnchorX == tool_start_x
MoveAnchorY == tool_start_y

\* Mutant: the preview drawn on a copy of the live grid.
PreviewBaseLive(c) == Grid(c)

\* new_grid = copy.deepcopy(self.app.last_canvas_grid)
PreviewBase(c) == LastGrid

\* self.app.last_canvas_grid = self.grid: the reference, not a copy.
Snapshot(c) == GridRef(c)

on_mouse_down(c, x, y, ctrl) ==
    /\ Running
    /\ steps < limit
    /\ tool = TEXT => Len(overlays) < MaxOverlays
    /\ app_last' = Snapshot(c)
    /\ tool_start_x' = x
    /\ tool_start_y' = y
    /\ draw' = TRUE
    /\ IF tool = PENCIL
       THEN LET r == draw_cell(Grid(c), x, y, pencil_brush_char)
            IN  /\ heap' = Collect([heap EXCEPT ![GridRef(c)] = r.grid],
                                   canvas_grid, app_last')
                /\ err' = r.err
                /\ UNCHANGED <<canvas_grid, overlays>>
       ELSE IF tool = ERASER
       THEN LET r == erase_cell(Grid(c), x, y)
            IN  /\ heap' = Collect([heap EXCEPT ![GridRef(c)] = r.grid],
                                   canvas_grid, app_last')
                /\ err' = r.err
                /\ UNCHANGED <<canvas_grid, overlays>>
       ELSE IF tool = TEXT
       THEN /\ overlays' = Append(overlays, TextInputOverlay(x, y, W - x))
            /\ heap' = Collect(heap, canvas_grid, app_last')
            /\ UNCHANGED <<canvas_grid, err>>
       ELSE /\ heap' = Collect(heap, canvas_grid, app_last')
            /\ UNCHANGED <<canvas_grid, err, overlays>>
    /\ ev' = Event("down", draw, x, y, <<>>)
    /\ gesture' = [canvas |-> c, tool |-> tool, brush |-> brush_char,
                   ctrl |-> (tool = LINE /\ ctrl), base |-> Grid(c), pure |-> TRUE,
                   switched |-> FALSE, moves |-> 0, pts |-> {<<x, y>>}, x |-> 0,
                   y |-> 0, hf |-> FALSE, rep |-> FALSE]
    /\ steps' = steps + 1
    /\ UNCHANGED <<canvases, limit, tool, brush_char>>

on_mouse_move(c, x, y, ctrl) ==
    /\ Running
    /\ steps < limit
    /\ IF ~GestureActive
       THEN UNCHANGED <<heap, canvas_grid, err>>
       ELSE IF MoveTool = PENCIL
       THEN WriteGrid(c, draw_cell(Grid(c), x, y, pencil_brush_char))
       ELSE IF MoveTool = ERASER
       THEN WriteGrid(c, erase_cell(Grid(c), x, y))
       ELSE IF MoveTool = RECTANGLE
       THEN InstallGrid(c, draw_rectangle(PreviewBase(c), MoveAnchorX, MoveAnchorY,
                                          x, y))
       ELSE IF MoveTool = LINE
       THEN InstallGrid(c, draw_line(PreviewBase(c), MoveAnchorX, MoveAnchorY, x, y,
                                     HorizontalFirst(ctrl)))
       ELSE UNCHANGED <<heap, canvas_grid, err>>
    /\ ev' = IF draw THEN Event("move", TRUE, x, y, <<>>)
             ELSE Event("move", FALSE, 0, 0, <<>>)
    /\ gesture' = IF draw
                  THEN [gesture EXCEPT !.pure = @ /\ c = gesture.canvas,
                                       !.moves = @ + 1, !.pts = @ \cup {<<x, y>>},
                                       !.x = x, !.y = y,
                                       !.hf = (tool = LINE /\ ctrl),
                                       !.rep = (/\ gesture.moves >= 1
                                                /\ x = gesture.x
                                                /\ y = gesture.y)]
                  ELSE gesture
    /\ steps' = steps + 1
    /\ UNCHANGED <<canvases, limit, app_last, draw, tool_start_x, tool_start_y, tool,
                   brush_char, overlays>>

on_mouse_up(c) ==
    /\ Running
    /\ steps < limit
    /\ draw' = FALSE
    /\ ev' = Event("up", draw, 0, 0, <<>>)
    /\ steps' = steps + 1
    /\ UNCHANGED <<canvases, limit, heap, canvas_grid, app_last, tool_start_x, tool_start_y,
                   tool, brush_char, overlays, err, gesture>>

on_leave(c) ==
    /\ Running
    /\ steps < limit
    /\ draw' = FALSE
    /\ ev' = Event("leave", draw, 0, 0, <<>>)
    /\ steps' = steps + 1
    /\ UNCHANGED <<canvases, limit, heap, canvas_grid, app_last, tool_start_x, tool_start_y,
                   tool, brush_char, overlays, err, gesture>>

\* Toolbox: another item is highlighted.
select_tool(t) ==
    /\ Running
    /\ steps < limit
    /\ t # tool
    /\ tool' = t
    /\ ev' = Event("tool", draw, 0, 0, <<>>)
    /\ gesture' = [gesture EXCEPT !.switched = TRUE]
    /\ steps' = steps + 1
    /\ UNCHANGED <<canvases, limit, heap, canvas_grid, app_last, draw, tool_start_x,
                   tool_start_y, brush_char, overlays, err>>

\* PencilTool.on_button_pressed: the picker's result reaches update_brush_char.
update_brush_char(char) ==
    /\ Running
    /\ steps < limit
    /\ char # brush_char
    /\ brush_char' = char
    /\ ev' = Event("brush", draw, 0, 0, <<char>>)
    /\ gesture' = [gesture EXCEPT !.pure = FALSE]
    /\ steps' = steps + 1
    /\ UNCHANGED <<canvases, limit, heap, canvas_grid, app_last, draw, tool_start_x,
                   tool_start_y, tool, overlays, err>>

\* self.app.query_one(Canvas): the first canvas of the app.
QueryOneCanvas == 1

RemoveAt(s, k) == [i \in 1..(Len(s) - 1) |-> IF i < k THEN s[i] ELSE s[i + 1]]

\* Input: a max_length of 0 is no limit.
Accepts(o, text) == o.max_length = 0 \/ Len(text) <= o.max_length

\* TextInputOverlay.dismiss, on submit or on blur, with the value typed so far.
dismiss(k, text) ==
    /\ Running
    /\ steps < limit
    /\ k \in 1..Len(overlays)
    /\ Accepts(overlays[k], text)
    /\ WriteGrid(QueryOneCanvas,
                 draw_text(Grid(QueryOneCanvas), text, overlays[k].start_x,
                           overlays[k].start_y))
    /\ overlays' = IF err' = NoError THEN RemoveAt(overlays, k) ELSE overlays
    /\ ev' = Event("text", draw, overlays[k].start_x, overlays[k].start_y, text)
    /\ gesture' = [gesture EXCEPT !.pure = FALSE]
    /\ steps' = steps + 1
    /\ UNCHANGED <<canvases, limit, app_last, draw, tool_start_x, tool_start_y, tool,
                   brush_char>>

Next ==
    \/ \E c \in canvases, p \in Points, ctrl \in BOOLEAN : on_mouse_down(c, p[1], p[2], ctrl)
    \/ \E c \in canvases, p \in Points, ctrl \in BOOLEAN : on_mouse_move(c, p[1], p[2], ctrl)
    \/ \E c \in canvases : on_mouse_up(c)
    \/ \E c \in canvases : on_leave(c)
    \/ \E t \in Tool : select_tool(t)
    \/ \E char \in BrushChars : update_brush_char(char)
    \/ \E k \in 1..MaxOverlays, text \in Texts : dismiss(k, text)

Spec == Init /\ [][Next]_vars

\* An app whose screen holds NumCanvas Canvas instances: Canvas.grid is a
\* class attribute, so every instance starts on the one list object.
InitTwoCanvases == canvases = 1..NumCanvas /\ limit = MaxSteps /\ InitApp

\* The events of such an app: presses, moves and releases on either canvas,
\* tool selections and text commits.
NextTwoCanvases ==
    \/ \E c \in canvases, p \in InPoints : on_mouse_down(c, p[1], p[2], FALSE)
    \/ \E c \in canvases, p \in InPoints : on_mouse_move(c, p[1], p[2], FALSE)
    \/ \E c \in canvases : on_mouse_up(c)
    \/ \E t \in Tool : select_tool(t)
    \/ \E k \in 1..MaxOverlays, text \in Texts : dismiss(k, text)

SpecTwoCanvases == InitTwoCanvases /\ [][NextTwoCanvases]_vars

\* Longer runs of one canvas with the Text, Rectangle and Line tools: presses
\* and moves at two points, and commits of a non-empty text.
TextPoints == {<<0, 0>>, <<1, 1>>}
InitText == canvases = {1} /\ limit = MaxStepsText /\ InitApp

NextText ==
    \/ \E p \in TextPoints : on_mouse_down(1, p[1], p[2], FALSE)
    \/ \E p \in TextPoints : on_mouse_move(1, p[1], p[2], FALSE)
    \/ \E t \in {TEXT, RECTANGLE, LINE} : select_tool(t)
    \/ \E k \in 1..MaxOverlays, text \in Texts \ {<<>>} : dismiss(k, text)

SpecText == InitText /\ [][NextText]_vars

\* ------------------------------------------------------------------- claims

InRange(x, y) == x \in 0..(W - 1) /\ y \in 0..(H - 1)
Cell(g, x, y) == g[y + 1][x + 1]
Cells == (0..(W - 1)) \X (0..(H - 1))

\* A gesture whose press and latest move are in range, with at least one move
\* delivered while drawing, and no tool selection, brush update or text commit
\* since the press.
Plain(t) ==
    /\ gesture.canvas # None
    /\ gesture.tool = t
    /\ gesture.pure
    /\ ~gesture.switched
Dragged(t) ==
    /\ Plain(t)
    /\ gesture.moves >= 1
    /\ InRange(tool_start_x, tool_start_y)
    /\ InRange(gesture.x, gesture.y)

\* C1: after every move of a Rectangle gesture, the grid is the grid of press
\* time with only the rectangle between the anchor and that move's point drawn
\* on it; nothing of an earlier preview frame remains.
C1_RectanglePreviewFromPressGrid ==
    Dragged(RECTANGLE) =>
        /\ err = NoError
        /\ Grid(gesture.canvas) =
               draw_rectangle(gesture.base, tool_start_x, tool_start_y,
                              gesture.x, gesture.y).grid

\* Press (0,0), move (1,0), move (1,1): the rectangle with corners (0,0) and
\* (1,1), with no horizontal glyph left of the (1,0) frame.
C1_Witness ==
    /\ Dragged(RECTANGLE)
    /\ gesture.moves = 2
    /\ gesture.pts = {<<0, 0>>, <<1, 0>>, <<1, 1>>}
    /\ tool_start_x = 0 /\ tool_start_y = 0
    /\ gesture.x = 1 /\ gesture.y = 1
    /\ Cell(Grid(gesture.canvas), 0, 0) = CORNER_TL
    /\ Cell(Grid(gesture.canvas), 1, 0) = CORNER_TR
    /\ Cell(Grid(gesture.canvas), 1, 1) = CORNER_BR

\* What a move at (x, y) makes of the grid when it is interpreted with tool t.
MoveResult(t, g, x, y) ==
    CASE t = PENCIL -> draw_cell(g, x, y, brush_char).grid
      [] t = ERASER -> erase_cell(g, x, y).grid
      [] t = RECTANGLE -> draw_rectangle(gesture.base, tool_start_x, tool_start_y,
                                         x, y).grid
      [] OTHER -> g

\* C2 (as claimed): a tool selection during a gesture does not change it; the
\* first move after the press has the effect of the tool active at the press.
C2_MoveUsesToolOfPress ==
    (/\ gesture.canvas # None
     /\ gesture.pure
     /\ gesture.tool \in {PENCIL, ERASER, RECTANGLE, TEXT}
     /\ gesture.moves = 1
     /\ InRange(tool_start_x, tool_start_y)
     /\ InRange(gesture.x, gesture.y)
     /\ ev.kind = "move")
    => Grid(gesture.canvas) =
           MoveResult(gesture.tool,
                      IF gesture.tool \in {PENCIL, ERASER}
                      THEN MoveResult(gesture.tool, gesture.base,
                                      tool_start_x, tool_start_y)
                      ELSE gesture.base,
                      gesture.x, gesture.y)

\* C3: the Line tool's orientation is the modifier of the press, captured once
\* per gesture; after every move the grid is the line drawn on the grid of
\* press time with that orientation, whatever modifier the move carries.
C3_LineOrientationFromPress ==
    Dragged(LINE) =>
        Grid(gesture.canvas) =
            draw_line(gesture.base, tool_start_x, tool_start_y, gesture.x, gesture.y,
                      gesture.ctrl).grid

\* What on_mouse_move does instead: horizontal_first is the modifier of each
\* move event, and the grid after a move is the grid of press time with the
\* line drawn with the orientation of that move.
LineOrientationFromMove ==
    Dragged(LINE) =>
        /\ err = NoError
        /\ Grid(gesture.canvas) =
               draw_line(gesture.base, tool_start_x, tool_start_y, gesture.x,
                         gesture.y, gesture.hf).grid

\* A Line gesture whose move carries another modifier than its press, with a bend.
LineOrientationFromMoveReached ==
    /\ Dragged(LINE)
    /\ gesture.ctrl # gesture.hf
    /\ tool_start_x # gesture.x
    /\ tool_start_y # gesture.y
    /\ Cell(Grid(gesture.canvas), LineColumn(tool_start_x, gesture.x, gesture.hf),
            LineRow(tool_start_y, gesture.y, gesture.hf))
           \in {CORNER_TL, CORNER_TR, CORNER_BL, CORNER_BR}

\* C4 (as claimed): the snapshot taken at press always equals the grid as it
\* was right before the press.
C4_SnapshotIsGridBeforePress ==
    (/\ gesture.canvas # None
     /\ gesture.pts \subseteq Cells) => LastGrid = gesture.base

\* The coordinates the last event handed to a drawing operation.
ConsumedOutOfRange ==
    \/ /\ ev.kind = "down"
       /\ tool \in {PENCIL, ERASER}
       /\ ~InRange(ev.x, ev.y)
    \/ /\ ev.kind = "move" /\ ev.active
       /\ tool \in {PENCIL, ERASER}
       /\ ~InRange(ev.x, ev.y)
    \/ /\ ev.kind = "move" /\ ev.active
       /\ tool \in {RECTANGLE, LINE}
       /\ ev.x # tool_start_x /\ ev.y # tool_start_y
       /\ ~InRange(ev.x, ev.y)
    \/ /\ ev.kind = "text"
       /\ Len(ev.text) > 0
       /\ ~InRange(ev.x, ev.y)

\* C5 (as claimed): an operation given a coordinate outside the grid fails
\* with an out-of-bounds error.
C5_OutOfRangeFails ==
    ConsumedOutOfRange => err = IndexError

\* Every canvas shows the same grid after the step as before it.
GridsUnchanged == \A c \in canvases : Grid(c)' = Grid(c)

\* C6: release and leave each set draw to false and change no cell of the
\* grid, and a move that follows them, before the next press, changes no cell.
C6_ReleaseAndLeaveEndTheGesture ==
    [][/\ ev'.kind \in {"up", "leave"} => (~draw' /\ GridsUnchanged)
       /\ (ev'.kind = "move" /\ ~draw) => GridsUnchanged]_vars

\* A press, a move that drew a preview, a release, then a move.
C6_Witness ==
    /\ gesture.canvas # None
    /\ gesture.moves = 1
    /\ Grid(gesture.canvas) # gesture.base
    /\ ev.kind = "move"
    /\ ~ev.active
    /\ ~draw

\* C7: a move, a release or a leave delivered while no gesture is active
\* changes nothing: not the grid, the anchor, the snapshot or the flag, and it
\* raises no error.
C7_EventsOutsideAGestureAreNoOps ==
    [][(ev'.kind \in {"move", "up", "leave"} /\ ~draw)
       => /\ UNCHANGED <<heap, canvas_grid, app_last, draw, tool_start_x,
                         tool_start_y, tool, brush_char, overlays>>
          /\ err' = NoError]_vars

\* A move delivered before any press, with a tool that draws when moved.
C7_Witness ==
    /\ ev.kind = "move"
    /\ ~ev.active
    /\ gesture.canvas = None
    /\ tool = PENCIL
    /\ Grid(1) = BlankGrid

\* C8: in a Pencil gesture the cells that differ from the grid before the
\* press are among the press and move points, and each of these points holds
\* the brush character; no cell between two points is painted.
C8_PencilPaintsOnlyEventPoints ==
    (Plain(PENCIL) /\ gesture.pts \subseteq Cells) =>
        /\ err = NoError
        /\ \A p \in gesture.pts : Cell(Grid(gesture.canvas), p[1], p[2]) = gesture.brush
        /\ \A p \in Cells :
               Cell(Grid(gesture.canvas), p[1], p[2]) # Cell(gesture.base, p[1], p[2])
                   => p \in gesture.pts

\* Press (0,0), move (W-1,0): both ends painted, the cells between them blank.
C8_Witness ==
    /\ Plain(PENCIL)
    /\ gesture.pts = {<<0, 0>>, <<W - 1, 0>>}
    /\ gesture.moves = 1
    /\ Cell(Grid(gesture.canvas), 0, 0) = brush_char
    /\ Cell(Grid(gesture.canvas), W - 1, 0) = brush_char
    /\ \A x \in 1..(W - 2) : Cell(Grid(gesture.canvas), x, 0) = BLANK

\* The cell (x, y) of the outline of the box (sx, sy)-(ex, ey) drawn on base.
RectangleCell(base, sx, sy, ex, ey, x, y) ==
    IF sx < ex /\ sy < ey
    THEN CASE x = sx /\ y = sy -> CORNER_TL
           [] x = sx /\ y = ey -> CORNER_BL
           [] x = ex /\ y = sy -> CORNER_TR
           [] x = ex /\ y = ey -> CORNER_BR
           [] y \in {sy, ey} /\ sx < x /\ x < ex -> HLINE
           [] x \in {sx, ex} /\ sy < y /\ y < ey -> VLINE
           [] OTHER -> Cell(base, x, y)
    ELSE IF sx < ex /\ y = sy /\ sx <= x /\ x <= ex THEN HLINE
    ELSE IF sy < ey /\ x = sx /\ sy <= y /\ y <= ey THEN VLINE
    ELSE Cell(base, x, y)

\* C9: the rectangle between the anchor and the point changes only cells of
\* the outline of their box: horizontal glyphs on the two rows, vertical
\* glyphs on the two columns, the four corner glyphs; one segment and no
\* corner when the box is one row or one column; nothing when it is one cell.
C9_RectangleOutline ==
    Dragged(RECTANGLE) =>
        \A p \in Cells :
            Cell(Grid(gesture.canvas), p[1], p[2]) =
                RectangleCell(gesture.base,
                              Min(tool_start_x, gesture.x), Min(tool_start_y, gesture.y),
                              Max(tool_start_x, gesture.x), Max(tool_start_y, gesture.y),
                              p[1], p[2])

\* Press (W-1,0), move (0,H-1): the outline of the whole grid.
C9_Witness ==
    /\ Dragged(RECTANGLE)
    /\ tool_start_x = W - 1 /\ tool_start_y = 0
    /\ gesture.x = 0 /\ gesture.y = H - 1
    /\ Cell(Grid(gesture.canvas), 0, 0) = CORNER_TL
    /\ Cell(Grid(gesture.canvas), 1, 0) = HLINE
    /\ Cell(Grid(gesture.canvas), 0, 1) = VLINE
    /\ Cell(Grid(gesture.canvas), W - 1, H - 1) = CORNER_BR
    /\ Cell(Grid(gesture.canvas), 1, 1) = BLANK

\* The cell (x, y) of the line from (x0, y0) to (x1, y1) drawn on base, whose
\* horizontal segment is on row r and whose vertical segment is on column k.
LineCell(base, x0, y0, x1, y1, r, k, x, y) ==
    LET onRow == x0 # x1 /\ y = r /\ Min(x0, x1) <= x /\ x <= Max(x0, x1)
        onColumn == y0 # y1 /\ x = k /\ Min(y0, y1) <= y /\ y <= Max(y0, y1)
    IN  IF onRow /\ onColumn THEN "corner"
        ELSE IF onRow THEN HLINE
        ELSE IF onColumn THEN VLINE
        ELSE Cell(base, x, y)

\* C10: with horizontal_first the line is the horizontal segment on row y0 and
\* the vertical segment on column x1, with the bend at their crossing; without
\* it the horizontal segment on row y1 and the vertical one on column x0; one
\* segment and no corner when the points share a row or a column; every other
\* cell is as in the base.
C10_LineSegmentsAndBend ==
    Dragged(LINE) =>
        \A p \in Cells :
            LET want == LineCell(gesture.base, tool_start_x, tool_start_y,
                                 gesture.x, gesture.y,
                                 IF gesture.hf THEN tool_start_y ELSE gesture.y,
                                 IF gesture.hf THEN gesture.x ELSE tool_start_x,
                                 p[1], p[2])
                have == Cell(Grid(gesture.canvas), p[1], p[2])
            IN  IF want = "corner"
                THEN have \in {CORNER_TL, CORNER_TR, CORNER_BL, CORNER_BR}
                ELSE have = want

\* Press (W-1,0), move (0,H-1) with the modifier: the horizontal segment on
\* row 0, the vertical segment on column 0, the bend at (0,0).
C10_Witness ==
    /\ Dragged(LINE)
    /\ gesture.hf
    /\ tool_start_x = W - 1 /\ tool_start_y = 0
    /\ gesture.x = 0 /\ gesture.y = H - 1
    /\ Cell(Grid(gesture.canvas), 1, 0) = HLINE
    /\ Cell(Grid(gesture.canvas), 0, 1) = VLINE
    /\ Cell(Grid(gesture.canvas), 0, 0) \in {CORNER_TL, CORNER_TR, CORNER_BL, CORNER_BR}
    /\ Cell(Grid(gesture.canvas), W - 1, H - 1) = BLANK

\* The two arms of a corner glyph, as the sides of the cell they reach.
Arms(glyph) ==
    IF glyph = CORNER_TL THEN {"right", "down"}
    ELSE IF glyph = CORNER_TR THEN {"left", "down"}
    ELSE IF glyph = CORNER_BL THEN {"right", "up"}
    ELSE IF glyph = CORNER_BR THEN {"left", "up"}
    ELSE {}

\* The glyph the bend of a line from (x0,y0) to (x1,y1) is to hold.
BendGlyph(x0, y0, x1, y1, hf) ==
    LET right == x1 > x0
        down == y1 > y0
    IN  IF hf
        THEN IF right /\ down THEN CORNER_TR
             ELSE IF right THEN CORNER_BR
             ELSE IF down THEN CORNER_TL
             ELSE CORNER_BL
        ELSE IF right /\ down THEN CORNER_BL
             ELSE IF right THEN CORNER_TL
             ELSE IF down THEN CORNER_BR
             ELSE CORNER_TR

\* A Line gesture whose anchor and latest point share neither row nor column.
Bent ==
    /\ Dragged(LINE)
    /\ tool_start_x # gesture.x
    /\ tool_start_y # gesture.y
BendX == IF gesture.hf THEN gesture.x ELSE tool_start_x
BendY == IF gesture.hf THEN tool_start_y ELSE gesture.y

\* C11: the bend of a line holds the glyph given by the signs of x1 - x0 and
\* y1 - y0: horizontal first, right and down U+2510, right and up U+2518, left
\* and down U+250C, left and up U+2514; vertical first, right and down U+2514,
\* right and up U+250C, left and down U+2518, left and up U+2510. Its two arms
\* point along the drawn horizontal segment and the drawn vertical segment.
C11_LineCornerGlyph ==
    Bent =>
        LET glyph == Cell(Grid(gesture.canvas), BendX, BendY)
            \* the horizontal segment lies on the bend's row, towards the
            \* other end of the span of columns; likewise the vertical one
            otherX == IF gesture.hf THEN tool_start_x ELSE gesture.x
            otherY == IF gesture.hf THEN gesture.y ELSE tool_start_y
        IN  /\ glyph = BendGlyph(tool_start_x, tool_start_y,
                                 gesture.x, gesture.y, gesture.hf)
            /\ Arms(glyph) = {IF otherX > BendX THEN "right" ELSE "left",
                              IF otherY > BendY THEN "down" ELSE "up"}
            /\ Cell(Grid(gesture.canvas), otherX, BendY) = HLINE
            /\ Cell(Grid(gesture.canvas), BendX, otherY) = VLINE

\* Press (0,1), move (1,0) with the modifier: right and up, the bend at (1,1)
\* holds U+2518.
C11_Witness ==
    /\ Bent
    /\ gesture.hf
    /\ tool_start_x = 0 /\ tool_start_y = 1
    /\ gesture.x = 1 /\ gesture.y = 0
    /\ Cell(Grid(gesture.canvas), 1, 1) = CORNER_BR
    /\ Cell(Grid(gesture.canvas), 0, 1) = HLINE
    /\ Cell(Grid(gesture.canvas), 1, 0) = VLINE

CornerGlyphs == {CORNER_TL, CORNER_TR, CORNER_BL, CORNER_BR}

\* C12: for the same base grid, anchor and endpoint sharing neither row nor
\* column, the line drawn horizontal first and the line drawn vertical first
\* are two different grids: one has its bend at (x1,y0) and leaves (x0,y1) as
\* in the base, the other has its bend at (x0,y1) and leaves (x1,y0) as in the
\* base; away from the rows and columns of the two points they are equal.
C12_OrientationMovesTheBend ==
    Bent =>
        LET x0 == tool_start_x
            y0 == tool_start_y
            x1 == gesture.x
            y1 == gesture.y
            here == Grid(gesture.canvas)
            there == draw_line(gesture.base, x0, y0, x1, y1, ~gesture.hf).grid
            first == IF gesture.hf THEN here ELSE there
            second == IF gesture.hf THEN there ELSE here
        IN  /\ first # second
            /\ Cell(first, x1, y0) \in CornerGlyphs
            /\ Cell(first, x0, y1) = Cell(gesture.base, x0, y1)
            /\ Cell(second, x0, y1) \in CornerGlyphs
            /\ Cell(second, x1, y0) = Cell(gesture.base, x1, y0)
            /\ Cell(first, x0, y0) = HLINE /\ Cell(second, x0, y0) = VLINE
            /\ \A p \in Cells :
                   p[1] \notin {x0, x1} /\ p[2] \notin {y0, y1}
                       => Cell(first, p[1], p[2]) = Cell(second, p[1], p[2])

\* Press (0,0), move (1,1) without the modifier: the bend at (0,1), while
\* (1,0), the bend of the other orientation, is blank.
C12_Witness ==
    /\ Bent
    /\ ~gesture.hf
    /\ tool_start_x = 0 /\ tool_start_y = 0
    /\ gesture.x = 1 /\ gesture.y = 1
    /\ Cell(Grid(gesture.canvas), 0, 1) = CORNER_BL
    /\ Cell(Grid(gesture.canvas), 1, 0) = BLANK
    /\ Cell(draw_line(gesture.base, 0, 0, 1, 1, TRUE).grid, 1, 0) = CORNER_TR

\* C13: a text commit of s at an in-range (x,y) with Len(s) <= 80 - x raises
\* nothing and sets cell (x+i,y) to the i-th character of s for each i, all on
\* row y and none past column 79; every other cell of the grid is as before.
C13_TextCommitWritesOneRow ==
    [][(/\ ev'.kind = "text"
        /\ InRange(ev'.x, ev'.y)
        /\ Len(ev'.text) <= W - ev'.x)
       => /\ err' = NoError
          /\ ev'.x + Len(ev'.text) - 1 <= W - 1
          /\ \A p \in Cells :
                 Cell(Grid(QueryOneCanvas)', p[1], p[2]) =
                     IF p[2] = ev'.y /\ p[1] - ev'.x \in 0..(Len(ev'.text) - 1)
                     THEN ev'.text[p[1] - ev'.x + 1]
                     ELSE Cell(Grid(QueryOneCanvas), p[1], p[2])]_vars

\* "hi" committed at (1,1): "h" in (1,1), "i" in (2,1), blanks around them.
C13_Witness ==
    /\ ev.kind = "text"
    /\ ev.x = 1 /\ ev.y = 1
    /\ ev.text = <<"h", "i">>
    /\ err = NoError
    /\ Cell(Grid(QueryOneCanvas), 1, 1) = "h"
    /\ Cell(Grid(QueryOneCanvas), 2, 1) = "i"
    /\ Cell(Grid(QueryOneCanvas), 0, 1) = BLANK
    /\ Cell(Grid(QueryOneCanvas), 3, 1) = BLANK
    /\ Cell(Grid(QueryOneCanvas), 1, 2) = BLANK

\* C14: a Rectangle move delivered at the coordinate of the move just before
\* it, in the same gesture, raises nothing and leaves the grid as that move
\* left it.
C14_RepeatedRectangleMoveIsIdempotent ==
    [][(/\ ev.kind = "move" /\ ev.active
        /\ ev'.kind = "move" /\ ev'.active
        /\ ev'.x = ev.x /\ ev'.y = ev.y
        /\ tool = RECTANGLE)
       => /\ err' = NoError
          /\ Grid(gesture.canvas)' = Grid(gesture.canvas)]_vars

\* Press (0,0), move (1,1), move (1,1): the rectangle of the first move.
C14_Witness ==
    /\ Dragged(RECTANGLE)
    /\ gesture.moves = 2
    /\ gesture.rep
    /\ tool_start_x = 0 /\ tool_start_y = 0
    /\ gesture.x = 1 /\ gesture.y = 1
    /\ Cell(Grid(gesture.canvas), 0, 0) = CORNER_TL
    /\ Cell(Grid(gesture.canvas), 1, 1) = CORNER_BR

PencilPaint(e) == e.kind = "down" \/ (e.kind = "move" /\ e.active)

\* C15: a brush update sets the character of the paints after it and changes
\* no cell; every Pencil paint, the press and each move of a gesture, writes
\* at its point the brush character current at that event, also when the
\* update came in the middle of the gesture, and no other cell.
C15_PencilPaintsTheCurrentBrush ==
    [][/\ ev'.kind = "brush"
          => /\ brush_char' = ev'.text[1]
             /\ \A c \in canvases : Grid(c)' = Grid(c)
       /\ (PencilPaint(ev') /\ tool = PENCIL /\ InRange(ev'.x, ev'.y))
          => /\ err' = NoError
             /\ brush_char' = brush_char
             /\ \A c \in canvases : \A p \in Cells :
                    c = gesture'.canvas =>
                        Cell(Grid(c)', p[1], p[2]) =
                            IF p = <<ev'.x, ev'.y>> THEN brush_char
                            ELSE Cell(Grid(c), p[1], p[2])]_vars

\* Press (0,0) with "x", brush set to "#", move (1,0): "x" stays in (0,0) and
\* (1,0) holds "#".
C15_Witness ==
    /\ tool = PENCIL /\ gesture.tool = PENCIL
    /\ ev.kind = "move" /\ ev.active
    /\ gesture.pts = {<<0, 0>>, <<1, 0>>}
    /\ ev.x = 1 /\ ev.y = 0
    /\ gesture.brush = "x" /\ brush_char = "#"
    /\ Cell(Grid(gesture.canvas), 0, 0) = "x"
    /\ Cell(Grid(gesture.canvas), 1, 0) = "#"

\* C16: an Eraser paint at an in-range point leaves that cell blank, whatever
\* a Pencil paint had put there, and changes no other cell; on a cell that is
\* already blank the grid after it is identical to the grid before.
C16_EraserBlanksOneCell ==
    [][(PencilPaint(ev') /\ tool = ERASER /\ InRange(ev'.x, ev'.y))
       => /\ err' = NoError
          /\ \A c \in canvases : c = gesture'.canvas =>
                 /\ \A p \in Cells :
                        Cell(Grid(c)', p[1], p[2]) =
                            IF p = <<ev'.x, ev'.y>> THEN BLANK
                            ELSE Cell(Grid(c), p[1], p[2])
                 /\ Cell(Grid(c), ev'.x, ev'.y) = BLANK => Grid(c)' = Grid(c)]_vars

\* Pencil press (1,1), Eraser selected, move (1,1): the cell is blank again
\* and the grid is the grid before the press.
C16_Witness ==
    /\ gesture.tool = PENCIL /\ tool = ERASER
    /\ gesture.pts = {<<1, 1>>}
    /\ gesture.moves = 1
    /\ ev.kind = "move" /\ ev.active /\ ev.x = 1 /\ ev.y = 1
    /\ Cell(Grid(gesture.canvas), 1, 1) = BLANK
    /\ Grid(gesture.canvas) = gesture.base

\* The characters of the model, each one a single character of the program.
Characters ==
    {BLANK, HLINE, VLINE} \cup CornerGlyphs \cup BrushChars
        \cup {SampleText[i] : i \in 1..Len(SampleText)}

\* C17: the grid of every canvas has exactly 24 rows of exactly 80 cells, each
\* cell one character, and its exported text is 24 lines of 80 characters with
\* one line break between consecutive lines, the line y holding row y.
C17_GridShape ==
    \A c \in canvases :
        LET g == Grid(c)
            t == grid_as_text(g)
        IN  /\ Len(g) = H
            /\ \A y \in 1..Len(g) :
                   /\ Len(g[y]) = W
                   /\ \A x \in 1..Len(g[y]) : g[y][x] \in Characters
            /\ Len(t) = H * W + (H - 1)
            /\ \A i \in 1..Len(t) :
                   IF i % (W + 1) = 0 THEN t[i] = NEWLINE
                   ELSE t[i] = g[(i \div (W + 1)) + 1][i % (W + 1)]

\* A rectangle dragged from (W-1,0) to (0,H-1): the first line of the text
\* runs from the top-left to the top-right corner glyph, the last character
\* is the bottom-right one.
C17_Witness ==
    /\ Dragged(RECTANGLE)
    /\ tool_start_x = W - 1 /\ tool_start_y = 0
    /\ gesture.x = 0 /\ gesture.y = H - 1
    /\ LET t == grid_as_text(Grid(gesture.canvas))
       IN  /\ t[1] = CORNER_TL
           /\ t[2] = HLINE
           /\ t[W] = CORNER_TR
           /\ t[W + 1] = NEWLINE
           /\ t[W + 2] = VLINE
           /\ t[Len(t)] = CORNER_BR

\* C18: each canvas owns its grid: a press delivered to one canvas, whatever
\* the tool paints, leaves the grid seen through every other canvas as it was.
C18_CanvasesOwnTheirGrids ==
    [][ev'.kind = "down"
       => \A c \in canvases, d \in canvases :
              (c = gesture'.canvas /\ d # c) => Grid(d)' = Grid(d)]_vars

StampChars == {SampleText[i] : i \in 1..Len(SampleText)}

\* The cells of the rectangle between (x0,y0) and (x1,y1), and of the line.
OnRectangle(x0, y0, x1, y1, p) ==
    /\ p[1] \in Min(x0, x1)..Max(x0, x1)
    /\ p[2] \in Min(y0, y1)..Max(y0, y1)
    /\ \/ x0 # x1 /\ p[2] \in {y0, y1}
       \/ y0 # y1 /\ p[1] \in {x0, x1}
OnLine(x0, y0, x1, y1, hf, p) ==
    \/ /\ x0 # x1
       /\ p[2] = (IF hf THEN y0 ELSE y1)
       /\ p[1] \in Min(x0, x1)..Max(x0, x1)
    \/ /\ y0 # y1
       /\ p[1] = (IF hf THEN x1 ELSE x0)
       /\ p[2] \in Min(y0, y1)..Max(y0, y1)

\* Cell p is one the last event painted, drew a shape over or stamped.
Covered(p) ==
    \/ /\ PencilPaint(ev)
       /\ tool \in {PENCIL, ERASER}
       /\ p = <<ev.x, ev.y>>
    \/ /\ ev.kind = "move" /\ ev.active
       /\ \/ tool = RECTANGLE
             /\ OnRectangle(tool_start_x, tool_start_y, ev.x, ev.y, p)
          \/ tool = LINE
             /\ OnLine(tool_start_x, tool_start_y, ev.x, ev.y, gesture.hf, p)
    \/ /\ ev.kind = "text"
       /\ p[2] = ev.y
       /\ p[1] - ev.x \in 0..(Len(ev.text) - 1)

\* C19: a cell that holds a character stamped by a text commit keeps it over
\* every event that does not paint, draw a shape over or stamp that cell, also
\* when the commit came between the press and a later move of a Rectangle or
\* Line gesture. Stated for the events that follow a press with the tool of
\* that press still selected.
C19_StampedTextPersists ==
    [][\A p \in Cells :
           (/\ Cell(Grid(QueryOneCanvas), p[1], p[2]) \in StampChars
            /\ ~gesture'.switched
            /\ ~Covered(p)')
               => Cell(Grid(QueryOneCanvas)', p[1], p[2]) =
                      Cell(Grid(QueryOneCanvas), p[1], p[2])]_vars

\* C20: no call of draw_horizontal_line or draw_vertical_line made by a
\* Rectangle or Line move fails its assertion start < end, whatever the anchor,
\* the point of the move and the orientation: no run ends in AssertionError.
C20_SegmentAssertionsHold == err # AssertionError

\* A Line move to the left on the row of the anchor, horizontal first: one
\* segment call with start_x < end_x, none for the column, and no error.
C20_Witness ==
    /\ Dragged(LINE)
    /\ gesture.hf
    /\ tool_start_x = 1 /\ gesture.x = 0
    /\ tool_start_y = gesture.y
    /\ err = NoError
    /\ Cell(Grid(gesture.canvas), 0, tool_start_y) = HLINE
    /\ Cell(Grid(gesture.canvas), 1, tool_start_y) = HLINE
====
